---- MODULE Spec2Model ----
(***************************************************************************)
(* Model of auto_pb.py: the ProjectBuilder class (name validation, the     *)
(* interactive name acquisition, the path gate and the create_* methods    *)
(* acting on a filesystem) and the two recipes built on it.                *)
(*                                                                         *)
(* A Python str is a sequence of one-character strings; a pathlib path is  *)
(* a sequence of components, the first being Root for an absolute path.    *)
(* None is the empty sequence.                                             *)
(***************************************************************************)
EXTENDS Integers, Sequences, FiniteSets, TLC

VARIABLES
    name,        \* argument handed to valid_project_name: [isStr, chars]
    vresult,     \* outcome of valid_project_name: "none" before the call
    pc,          \* position of the constructor / recipe being run
    typed,       \* the lines input() returned to the name prompt, in order
    authorReads, \* how many times the author prompt was read
    path,        \* ProjectBuilder.path
    proj_name,   \* ProjectBuilder.proj_name
    author,      \* ProjectBuilder.author
    proj_dir,    \* ProjectBuilder.proj_dir (None until create_proj_dir)
    dirs,        \* the filesystem: the set of existing directories
    files,       \* the filesystem: existing regular files and their text
    call,        \* the last method call made on the builder, with arguments
    result,      \* how that call ended: "ok" or the exception raised
    ret,         \* the path that call returned (None if it returned none)
    projDirCalls,\* number of create_proj_dir calls made so far (capped)
    recipe,      \* which recipe is running: "simple", "ml" or "none"
    idx,         \* loop index inside the recipe
    conda,       \* create_ml_project's create_conda_env argument
    nops         \* number of method calls made on the builder so far

vars == <<name, vresult, pc, typed, authorReads, path, proj_name, author,
          proj_dir, dirs, files, call, result, ret, projDirCalls, recipe,
          idx, conda, nops>>

None == <<>>

(***************************************************************************)
(* Characters                                                              *)
(***************************************************************************)
\* Stands for one non-ASCII letter such as U+00E9: str.isdigit() is false
\* for it and the Unicode-aware \w of the re module matches it.
UniLetter == "U+00E9"

AsciiLower == {"a","b","c","d","e","f","g","h","i","j","k","l","m",
               "n","o","p","q","r","s","t","u","v","w","x","y","z"}
AsciiUpper == {"A","B","C","D","E","F","G","H","I","J","K","L","M",
               "N","O","P","Q","R","S","T","U","V","W","X","Y","Z"}
AsciiDigit == {"0","1","2","3","4","5","6","7","8","9"}
Whitespace == {" ", "\n", "\t"}

\* str.isdigit() on one character
isdigit(c) == c \in AsciiDigit

\* the regex class \w on a str pattern (Unicode word characters)
IsWordChar(c) == c \in AsciiLower \cup AsciiUpper \cup AsciiDigit \cup {"_", UniLetter}

\* positions at which the regex anchor $ matches: the end of the string and
\* just before a newline that ends the string
DollarPositions(s) ==
    {Len(s)} \cup (IF Len(s) > 0 /\ s[Len(s)] = "\n" THEN {Len(s) - 1} ELSE {})

\* re.match(r'^([-_]).+$', name) is not None
bad_start(s) ==
    /\ Len(s) >= 1
    /\ s[1] \in {"-", "_"}
    /\ \E e \in DollarPositions(s) :
          /\ e >= 2
          /\ \A i \in 2..e : s[i] # "\n"

\* re.match(r'^.+([-_])$', name) is not None
bad_end(s) ==
    \E e \in DollarPositions(s) :
       /\ e >= 2
       /\ s[e] \in {"-", "_"}
       /\ \A i \in 1..(e - 1) : s[i] # "\n"

bad_chars_keep_hyphen(s) == {s[i] : i \in {j \in DOMAIN s : ~IsWordChar(s[j])}}

\* set(re.findall(r'(\W)', name)) with '-' removed
bad_chars(s) == {s[i] : i \in {j \in DOMAIN s : ~IsWordChar(s[j])}} \ {"-"}

\* name.find(' ') > -1
has_space(s) == \E i \in DOMAIN s : s[i] = " "

\* ProjectBuilder.valid_project_name: "True"/"False", or the exception raised
valid_project_name(arg) ==
    IF ~arg.isStr THEN "TypeError"
    ELSE LET s == arg.chars IN
         IF s = <<>> THEN "IndexError"            \* name[0] on ''
         ELSE IF isdigit(s[1]) THEN "False"
         ELSE IF has_space(s) THEN "False"
         ELSE IF bad_chars(s) # {} THEN "False"
         ELSE IF bad_start(s) THEN "False"
         ELSE IF bad_end(s) THEN "False"
         ELSE "True"

Str(s) == [isStr |-> TRUE, chars |-> s]
NotAStr == [isStr |-> FALSE, chars |-> <<>>]

(***************************************************************************)
(* Bounds of the validator's inputs                                        *)
(***************************************************************************)
MaxLen == 3
Alphabet == {"a", "1", "-", "_", " ", "$", UniLetter, "\n"}
Strings == UNION {[1..n -> Alphabet] : n \in 0..MaxLen}

(***************************************************************************)
(* String literals of the source                                           *)
(***************************************************************************)
README_md == <<"R","E","A","D","M","E",".","m","d">>
TODO_md == <<"T","O","D","O",".","m","d">>
LICENSE == <<"L","I","C","E","N","S","E">>
setup_py == <<"s","e","t","u","p",".","p","y">>
gitignore == <<".","g","i","t","i","g","n","o","r","e">>
dot_py == <<".","p","y">>
test_prefix == <<"t","e","s","t","_">>
dot_ipynb == <<".","i","p","y","n","b">>
dot_template == <<".","t","e","m","p","l","a","t","e">>
dot_yml == <<".","y","m","l">>
main_py_template == <<"m","a","i","n",".","p","y",".","t","e","m","p","l","a","t","e">>
test_project_py_template == <<"t","e","s","t","_","p","r","o","j","e","c","t",".","p","y",".","t","e","m","p","l","a","t","e">>
jupyter_ipynb_template == <<"j","u","p","y","t","e","r",".","i","p","y","n","b",".","t","e","m","p","l","a","t","e">>
environment_yml == <<"e","n","v","i","r","o","n","m","e","n","t",".","y","m","l">>
env == <<"e","n","v">>
venv == <<"v","e","n","v">>
other_files == <<"o","t","h","e","r","-","f","i","l","e","s">>
templates == <<"t","e","m","p","l","a","t","e","s">>
data == <<"d","a","t","a">>
tests == <<"t","e","s","t","s">>
notebooks == <<"n","o","t","e","b","o","o","k","s">>
project_name_key == <<"p","r","o","j","e","c","t","_","n","a","m","e">>
author_name_key == <<"a","u","t","h","o","r","_","n","a","m","e">>
git_username_key == <<"g","i","t","_","u","s","e","r","n","a","m","e">>
radroid == <<"r","a","d","r","o","i","d">>
env_name_key == <<"e","n","v","_","n","a","m","e">>

(***************************************************************************)
(* str methods used by the source                                          *)
(***************************************************************************)
RECURSIVE lstrip(_)
lstrip(s) == IF s # <<>> /\ Head(s) \in Whitespace THEN lstrip(Tail(s)) ELSE s

RECURSIVE rstrip(_)
rstrip(s) ==
    IF s # <<>> /\ s[Len(s)] \in Whitespace
    THEN rstrip(SubSeq(s, 1, Len(s) - 1)) ELSE s

\* str.strip()
strip(s) == rstrip(lstrip(s))

\* str.replace("-", "_")
replace_dash(s) == [i \in DOMAIN s |-> IF s[i] = "-" THEN "_" ELSE s[i]]

UpperToLower ==
    [c \in AsciiUpper |->
        CASE c = "A" -> "a" [] c = "B" -> "b" [] c = "C" -> "c" [] c = "D" -> "d"
          [] c = "E" -> "e" [] c = "F" -> "f" [] c = "G" -> "g" [] c = "H" -> "h"
          [] c = "I" -> "i" [] c = "J" -> "j" [] c = "K" -> "k" [] c = "L" -> "l"
          [] c = "M" -> "m" [] c = "N" -> "n" [] c = "O" -> "o" [] c = "P" -> "p"
          [] c = "Q" -> "q" [] c = "R" -> "r" [] c = "S" -> "s" [] c = "T" -> "t"
          [] c = "U" -> "u" [] c = "V" -> "v" [] c = "W" -> "w" [] c = "X" -> "x"
          [] c = "Y" -> "y" [] c = "Z" -> "z"]

\* str.lower()
lower(s) == [i \in DOMAIN s |-> IF s[i] \in AsciiUpper THEN UpperToLower[s[i]] ELSE s[i]]

(***************************************************************************)
(* pathlib                                                                 *)
(***************************************************************************)
Root == <<"/">>

\* Path.cwd(): the directory the program is run from, and its parent
Cwd == <<Root, <<"w">>, <<"c">>>>
CwdParent == SubSeq(Cwd, 1, Len(Cwd) - 1)

\* Path.is_absolute()
is_absolute(p) == p # <<>> /\ p[1] = Root

\* a relative path names a file relative to the current directory
Resolve(p) == IF is_absolute(p) THEN p ELSE Cwd \o p

\* p / child, child one path component
Join(p, child) == Append(p, child)

\* Path.parent
Parent(p) == SubSeq(p, 1, Len(p) - 1)

\* Path.name
PathName(p) == p[Len(p)]

\* Path.suffix: from the last '.' of the name, unless the name starts or
\* ends with it
Suffix(p) ==
    LET n == PathName(p)
        dots == {i \in DOMAIN n : n[i] = "."}
    IN IF dots = {} THEN <<>>
       ELSE LET i == CHOOSE d \in dots : \A e \in dots : e <= d
            IN IF i > 1 /\ i < Len(n) THEN SubSeq(n, i, Len(n)) ELSE <<>>

\* str(path): the components joined by '/'
RECURSIVE PathStr(_)
PathStr(p) ==
    IF p = <<>> THEN <<>>
    ELSE IF Len(p) = 1 THEN p[1]
    ELSE IF p[1] = Root THEN Root \o PathStr(Tail(p))
    ELSE p[1] \o <<"/">> \o PathStr(Tail(p))

\* a filesystem is [dirs, files]; b below is a builder with its filesystem:
\* [proj_dir, dirs, files]
is_dir(b, p) == Resolve(p) \in b.dirs
is_file(b, p) == Resolve(p) \in DOMAIN b.files
exists(b, p) == is_dir(b, p) \/ is_file(b, p)

\* the paths at or below p
Under(p, S) == {q \in S : Len(q) >= Len(p) /\ SubSeq(q, 1, Len(p)) = p}

\* the outcome of a method: the builder and filesystem it leaves, how it
\* ended and what it returned
Out(b, res, r) ==
    [proj_dir |-> b.proj_dir, dirs |-> b.dirs, files |-> b.files,
     result |-> res, ret |-> r]

Builder(o) == [proj_dir |-> o.proj_dir, dirs |-> o.dirs, files |-> o.files]

\* Path.mkdir(exist_ok=True)
mkdir(b, p) ==
    LET q == Resolve(p) IN
    IF q \in b.dirs THEN Out(b, "ok", None)
    ELSE IF q \in DOMAIN b.files THEN Out(b, "FileExistsError", None)
    ELSE IF Parent(q) \in DOMAIN b.files THEN Out(b, "NotADirectoryError", None)
    ELSE IF Parent(q) \notin b.dirs THEN Out(b, "FileNotFoundError", None)
    ELSE Out([b EXCEPT !.dirs = @ \cup {q}], "ok", None)

\* Path.touch()
touch(b, p) ==
    LET q == Resolve(p) IN
    IF q \in b.dirs \/ q \in DOMAIN b.files THEN Out(b, "ok", None)
    ELSE IF Parent(q) \in DOMAIN b.files THEN Out(b, "NotADirectoryError", None)
    ELSE IF Parent(q) \notin b.dirs THEN Out(b, "FileNotFoundError", None)
    ELSE Out([b EXCEPT !.files = (q :> <<>>) @@ @], "ok", None)

\* shutil.rmtree(p) of an existing directory
rmtree(b, p) ==
    [b EXCEPT !.dirs = @ \ Under(Resolve(p), @),
              !.files = [f \in DOMAIN @ \ Under(Resolve(p), DOMAIN @) |-> @[f]]]

\* the prefixes of q, shortest first, from the root down to q itself
Ancestors(q) == {SubSeq(q, 1, n) : n \in 1..Len(q)}

\* what "python3 -m venv LOC" and "conda env create --prefix LOC" leave on
\* disk: the directory LOC, made with its missing parents, unless a regular
\* file is in the way; the exit status is not looked at
make_env_dir(b, loc) ==
    LET q == Resolve(loc) IN
    IF \E a \in Ancestors(q) : a \in DOMAIN b.files THEN b
    ELSE [b EXCEPT !.dirs = @ \cup Ancestors(q)]

(***************************************************************************)
(* Templates: the text of a file is a sequence of tokens, each either      *)
(* literal text or a {{ key }} placeholder.                                *)
(***************************************************************************)
Lit(t) == [var |-> FALSE, text |-> t]
Var(k) == [var |-> TRUE, text |-> k]

\* jinja2 Template(text).render(d): a placeholder is replaced by the value
\* bound to its key, and by the empty string when the key is not bound
\* (jinja2's default Undefined)
render(text, d) ==
    [i \in DOMAIN text |->
        IF text[i].var
        THEN Lit(IF text[i].text \in DOMAIN d THEN d[text[i].text] ELSE <<>>)
        ELSE text[i]]

\* the temp_dict create_file builds when none is given
default_dict(pname, auth) ==
    (project_name_key :> pname) @@ (author_name_key :> auth)
        @@ (git_username_key :> radroid)

TemplatesDir == Join(Cwd, templates)

(***************************************************************************)
(* ProjectBuilder methods.  Each takes the builder with its filesystem and *)
(* gives the outcome: the state left behind, "ok" or the exception raised, *)
(* and the returned path.                                                  *)
(***************************************************************************)
valid_path_no_exists_check(b, p, filename) ==
    IF b.proj_dir = None \/ ~exists(b, b.proj_dir)
    THEN Out(b, "FileNotFoundError", None)
    ELSE LET dir == IF p = None THEN b.proj_dir ELSE p IN
         IF ~exists(b, dir) THEN Out(b, "FileNotFoundError", None)
         ELSE IF ~is_dir(b, dir) THEN Out(b, "TypeError", None)
         ELSE IF filename = None THEN Out(b, "ok", dir)
         ELSE Out(b, "ok", Join(dir, filename))

valid_path(b, p, filename) ==
    IF b.proj_dir = None \/ ~exists(b, b.proj_dir)
    THEN Out(b, "FileNotFoundError", None)
    ELSE LET dir == IF p = None THEN b.proj_dir ELSE p IN
         IF ~exists(b, dir) THEN Out(b, "FileNotFoundError", None)
         ELSE IF ~is_dir(b, dir) THEN Out(b, "TypeError", None)
         ELSE IF filename = None THEN Out(b, "ok", dir)
         ELSE LET file_path == Join(dir, filename) IN
              IF exists(b, file_path) THEN Out(b, "FileExistsError", None)
              ELSE Out(b, "ok", file_path)

create_proj_dir_strict(b, base, pname) ==
    LET pd == Join(base, pname) IN
    IF exists(b, pd) THEN Out(b, "FileExistsError", None)
    ELSE LET m == mkdir(b, pd) IN
         IF m.result # "ok" THEN m
         ELSE Out([Builder(m) EXCEPT !.proj_dir = pd], "ok", pd)

create_proj_dir(b, base, pname) ==
    LET pd == Join(base, pname) IN
    IF exists(b, pd) THEN Out([b EXCEPT !.proj_dir = pd], "ok", pd)
    ELSE LET m == mkdir(b, pd) IN
         IF m.result # "ok" THEN m
         ELSE Out([Builder(m) EXCEPT !.proj_dir = pd], "ok", pd)

create_dir(b, dir_name, p) ==
    LET v == valid_path(b, p, dir_name) IN
    IF v.result # "ok" THEN v
    ELSE LET m == mkdir(b, v.ret) IN
         IF m.result # "ok" THEN m ELSE Out(Builder(m), "ok", v.ret)

\* ProjectBuilder.__add_to_file
add_to_file(b, path_to_file, template_dict, template_name) ==
    IF ~is_file(b, path_to_file) THEN Out(b, "TypeError", None)
    ELSE IF ~exists(b, path_to_file) THEN Out(b, "FileNotFoundError", None)
    ELSE IF b.proj_dir = None \/ ~exists(b, b.proj_dir)
         THEN Out(b, "FileNotFoundError", None)
    ELSE LET tname == IF template_name = None
                      THEN PathName(path_to_file) \o dot_template
                      ELSE template_name
             path_temp == Join(TemplatesDir, tname)
         IN  IF ~exists(b, path_temp) THEN Out(b, "FileNotFoundError", None)
             ELSE IF is_dir(b, path_temp) THEN Out(b, "IsADirectoryError", None)
             ELSE LET write_to_file == render(b.files[path_temp], template_dict)
                  IN Out([b EXCEPT !.files[Resolve(path_to_file)] = write_to_file],
                         "ok", None)

\* temp_dict = NoDict stands for the argument None
NoDict == <<>>

create_file_with_rollback(b, pname, auth, filename, template, temp_dict, temp_name, p) ==
    LET v == valid_path(b, p, filename) IN
    IF v.result # "ok" THEN v
    ELSE LET t == touch(b, v.ret) IN
         IF t.result # "ok" THEN t
         ELSE LET d == IF temp_dict = NoDict THEN default_dict(pname, auth)
                       ELSE temp_dict
              IN IF template
                 THEN LET a == add_to_file(Builder(t), v.ret, d, temp_name) IN
                      IF a.result # "ok" THEN Out(b, a.result, None)
                      ELSE Out(Builder(a), "ok", v.ret)
                 ELSE Out(Builder(t), "ok", v.ret)

create_file(b, pname, auth, filename, template, temp_dict, temp_name, p) ==
    LET v == valid_path(b, p, filename) IN
    IF v.result # "ok" THEN v
    ELSE LET t == touch(b, v.ret) IN
         IF t.result # "ok" THEN t
         ELSE LET d == IF temp_dict = NoDict THEN default_dict(pname, auth)
                       ELSE temp_dict
              IN IF template
                 THEN LET a == add_to_file(Builder(t), v.ret, d, temp_name) IN
                      IF a.result # "ok" THEN a
                      ELSE Out(Builder(a), "ok", v.ret)
                 ELSE Out(Builder(t), "ok", v.ret)

\* Path.unlink() of an existing path
unlink(b, p) ==
    LET q == Resolve(p) IN
    IF q \in b.dirs THEN Out(b, "IsADirectoryError", None)
    ELSE Out([b EXCEPT !.files = [f \in DOMAIN @ \ {q} |-> @[f]]], "ok", None)

create_conda_env(b, pname, auth, yml_file_path) ==
    IF b.proj_dir = None THEN Out(b, "TypeError", None)   \* None / 'env'
    ELSE
    LET create_loc == Join(b.proj_dir, env)
        template_path == Join(Cwd, other_files)
        yml == IF yml_file_path = None THEN Join(template_path, environment_yml)
               ELSE yml_file_path
        prepared ==
            IF yml_file_path = None
            THEN LET u == IF exists(b, yml) THEN unlink(b, yml)
                          ELSE Out(b, "ok", None)
                 IN IF u.result # "ok" THEN u
                    ELSE create_file(Builder(u), pname, auth, environment_yml,
                                     TRUE, (env_name_key :> PathStr(create_loc)),
                                     None, template_path)
            ELSE IF ~is_absolute(yml_file_path) THEN Out(b, "TypeError", None)
            ELSE IF Suffix(yml_file_path) # dot_yml THEN Out(b, "TypeError", None)
            ELSE Out(b, "ok", None)
    IN IF prepared.result # "ok" THEN Out(Builder(prepared), prepared.result, None)
       ELSE IF ~exists(Builder(prepared), yml)
            THEN Out(Builder(prepared), "FileNotFoundError", None)
       ELSE Out(make_env_dir(Builder(prepared), create_loc), "ok", None)

create_pipenv(b) ==
    IF b.proj_dir = None THEN Out(b, "TypeError", None)   \* None / 'venv'
    ELSE Out(make_env_dir(b, Join(b.proj_dir, venv)), "ok", None)

(***************************************************************************)
(* State shared by the specifications below                                *)
(***************************************************************************)
Call(op, n, t, d, tn, p) ==
    [op |-> op, name |-> n, template |-> t, dict |-> d, temp_name |-> tn,
     path |-> p]

NoCall == Call("none", None, FALSE, "None", None, None)

\* the builder with its filesystem, as the methods take it
Self == [proj_dir |-> proj_dir, dirs |-> dirs, files |-> files]

\* the text of the templates shipped in the templates directory
README_template == <<Lit(<<"#">>), Var(project_name_key), Var(author_name_key)>>
environment_template == <<Lit(<<"prefix">>), Var(env_name_key)>>

TemplatePath(n) == Join(TemplatesDir, n)
OtherFiles == Join(Cwd, other_files)

\* the directories present before the program runs
BaseDirs == {<<Root>>, CwdParent, Cwd, TemplatesDir, OtherFiles}

(***************************************************************************)
(* SpecValid: valid_project_name applied to every bounded input            *)
(***************************************************************************)
InitValid ==
    /\ name \in {Str(s) : s \in Strings} \cup {NotAStr}
    /\ vresult = "none"
    /\ pc = "idle" /\ typed = <<>> /\ authorReads = 0
    /\ path = None /\ proj_name = <<>> /\ author = <<>> /\ proj_dir = None
    /\ dirs = {} /\ files = <<>>
    /\ call = NoCall /\ result = "none" /\ ret = None /\ projDirCalls = 0
    /\ recipe = "none" /\ idx = 0 /\ conda = FALSE /\ nops = 0

Validate ==
    /\ vresult = "none"
    /\ vresult' = valid_project_name(name)
    /\ UNCHANGED <<name, pc, typed, authorReads, path, proj_name, author,
                   proj_dir, dirs, files, call, result, ret, projDirCalls,
                   recipe, idx, conda, nops>>

NextValid == Validate

SpecValid == InitValid /\ [][NextValid]_vars

(***************************************************************************)
(* SpecNames: ProjectBuilder(path), which runs get_names                   *)
(***************************************************************************)
\* range(3) in get_names
MaxAttempts == 3

range_exhausted_off_by_one(attempts) == attempts > MaxAttempts

\* the for loop has run out of attempts after this many turns
range_exhausted(attempts) == attempts >= MaxAttempts

\* lines the user may type at a prompt
Lines == { <<>>, <<" ">>, <<"-">>, <<"1","a">>, <<"a"," ","b">>,
           <<" ","A","-","b"," ">>, <<"s","e","t","u","p">>, <<"-","a">> }
AuthorLines == { <<"R","a","j">>, <<" ","x"," ">> }

SomeFile == Join(Cwd, <<"t","e","s","t",".","t","x","t">>)
Missing == Join(Cwd, <<"n","o","n","_","e","x","i","s","t","a","n","t">>)

\* the path arguments the constructor is tried with
ConstructorPaths == {None, CwdParent, Cwd, Missing, SomeFile, <<tests>>}

InitNames ==
    /\ name = NotAStr /\ vresult = "none"
    /\ pc = "new" /\ typed = <<>> /\ authorReads = 0
    /\ path = None /\ proj_name = <<>> /\ author = <<>> /\ proj_dir = None
    /\ dirs = BaseDirs
    /\ files = (SomeFile :> <<>>)
    /\ call = NoCall /\ result = "none" /\ ret = None /\ projDirCalls = 0
    /\ recipe = "none" /\ idx = 0 /\ conda = FALSE /\ nops = 0

\* __init__ up to the call of get_names
Construct(p) ==
    /\ pc = "new"
    /\ call' = Call("__init__", None, FALSE, "None", None, p)
    /\ IF p = None
       THEN /\ path' = CwdParent /\ pc' = "name" /\ result' = "none"
       ELSE IF ~is_absolute(p)
       THEN /\ pc' = "raised" /\ result' = "TypeError" /\ path' = path
       ELSE IF ~exists(Self, p)
       THEN /\ pc' = "raised" /\ result' = "FileNotFoundError" /\ path' = path
       ELSE IF ~is_dir(Self, p)
       THEN /\ pc' = "raised" /\ result' = "TypeError" /\ path' = path
       ELSE /\ path' = p /\ pc' = "name" /\ result' = "none"
    /\ UNCHANGED <<name, vresult, typed, authorReads, proj_name, author,
                   proj_dir, dirs, files, ret, projDirCalls, recipe, idx,
                   conda, nops>>

\* one turn of the for loop of get_names: read a line, strip it, validate it
ReadName(line) ==
    /\ pc = "name"
    /\ typed' = Append(typed, line)
    /\ proj_name' = strip(line)
    /\ LET is_valid == valid_project_name(Str(strip(line))) IN
       IF is_valid = "True" THEN /\ pc' = "author" /\ result' = result
       ELSE IF is_valid = "False"
       THEN IF range_exhausted(Len(typed) + 1)
            THEN /\ pc' = "raised" /\ result' = "UserWarning"
            ELSE /\ pc' = "name" /\ result' = result
       ELSE /\ pc' = "raised" /\ result' = is_valid
    /\ UNCHANGED <<name, vresult, authorReads, path, author, proj_dir, dirs,
                   files, call, ret, projDirCalls, recipe, idx, conda,
                   nops>>

\* the author prompt and the return into __init__
ReadAuthor(line) ==
    /\ pc = "author"
    /\ author' = line
    /\ authorReads' = authorReads + 1
    /\ pc' = "constructed"
    /\ result' = "ok"
    /\ UNCHANGED <<name, vresult, typed, path, proj_name, proj_dir, dirs,
                   files, call, ret, projDirCalls, recipe, idx, conda,
                   nops>>

NextNames ==
    \/ \E p \in ConstructorPaths : Construct(p)
    \/ \E line \in Lines : ReadName(line)
    \/ \E line \in AuthorLines : ReadAuthor(line)

SpecNames == InitNames /\ [][NextNames]_vars

(***************************************************************************)
(* Properties of valid_project_name (checked under SpecValid)              *)
(***************************************************************************)
\* the five rules as the specification words them
AllowedChars == AsciiLower \cup AsciiUpper \cup AsciiDigit \cup {"_", "-"}

ViolatesARule(s) ==
    \/ s[1] \in AsciiDigit
    \/ \E i \in DOMAIN s : s[i] = " "
    \/ \E i \in DOMAIN s : s[i] \notin AllowedChars
    \/ s[1] \in {"-", "_"}
    \/ s[Len(s)] \in {"-", "_"}

Validated == vresult # "none"

\* C1: every non-empty name, of any length, that starts with a digit, holds a
\* space, holds a character outside [A-Za-z0-9_-], or starts or ends with
\* '-' or '_' is answered False.
C1_RuleViolationsRejected ==
    (Validated /\ name.isStr /\ name.chars # <<>> /\ ViolatesARule(name.chars))
        => vresult = "False"

\* C2: every non-empty name that breaks none of the five rules is answered
\* True.
C2_ConformingNamesAccepted ==
    (Validated /\ name.isStr /\ name.chars # <<>> /\ ~ViolatesARule(name.chars))
        => vresult = "True"

\* a conforming name with an inner hyphen has been validated and accepted
C2_Witness ==
    /\ Validated /\ name.isStr /\ Len(name.chars) = 3
    /\ ~ViolatesARule(name.chars)
    /\ name.chars[2] = "-"
    /\ vresult = "True"

\* C3: for a string, the empty one included, valid_project_name returns a
\* boolean and raises nothing; it raises TypeError exactly for a non-string.
C3_NeverRaisesOnStrings ==
    Validated =>
        IF name.isStr THEN vresult \in {"True", "False"}
        ELSE vresult = "TypeError"

(***************************************************************************)
(* Properties of get_names (checked under SpecNames)                       *)
(***************************************************************************)
Accepts(line) == valid_project_name(Str(strip(line))) = "True"
Rejects(line) == valid_project_name(Str(strip(line))) = "False"

\* C4: at most 3 candidate names are read; the accepted name is the first
\* stripped candidate that validation accepts; three rejected candidates end
\* the acquisition with UserWarning, with the author never read and no
\* builder constructed; the author is read exactly once, after acceptance.
C4_NameAcquisition ==
    /\ Len(typed) <= 3
    /\ pc \in {"author", "constructed"} =>
          /\ typed # <<>>
          /\ proj_name = strip(typed[Len(typed)])
          /\ Accepts(typed[Len(typed)])
          /\ \A i \in 1..(Len(typed) - 1) : ~Accepts(typed[i])
    /\ (Len(typed) >= 3 /\ \A i \in 1..3 : Rejects(typed[i])) =>
          /\ pc = "raised" /\ result = "UserWarning"
          /\ authorReads = 0
    /\ result = "UserWarning" =>
          /\ Len(typed) = 3 /\ \A i \in 1..3 : Rejects(typed[i])
    /\ authorReads <= 1
    /\ authorReads = 1 <=> pc = "constructed"
    /\ pc = "author" => authorReads = 0

\* a builder was constructed with a name accepted at the third attempt, the
\* typed line carrying whitespace that was stripped
C4_Witness ==
    /\ pc = "constructed"
    /\ Len(typed) = 3
    /\ proj_name # typed[3]
    /\ authorReads = 1

\* three rejected candidates ended the acquisition
C4_Exhausted ==
    /\ pc = "raised" /\ result = "UserWarning" /\ Len(typed) = 3

(***************************************************************************)
(* Spec: a constructed builder on which the methods are called in any      *)
(* order, with the project directory removed between calls at will         *)
(***************************************************************************)
MaxOps == 4

ProjName == <<"p">>
ProjDirPath == Join(CwdParent, ProjName)
Foreign == <<Lit(<<"o","l","d">>)>>

\* what is found at path / proj_name before the builder's first call
PreExisting ==
    { [dirs |-> {}, files |-> <<>>],
      [dirs |-> {ProjDirPath}, files |-> <<>>],
      [dirs |-> {ProjDirPath},
       files |-> (Join(ProjDirPath, README_md) :> Foreign)],
      [dirs |-> {}, files |-> (ProjDirPath :> Foreign)] }

\* the templates present in Spec: none for setup.py
ShippedTemplates ==
    (TemplatePath(README_md \o dot_template) :> README_template)
        @@ (TemplatePath(environment_yml \o dot_template) :> environment_template)

FileNames == {README_md, setup_py}
DirNames == {data}
PathArgs == {None, ProjDirPath, Join(ProjDirPath, data), OtherFiles, Missing}

\* the str 'data': a directory name, relative as pathlib reads it
RelativeData == <<data>>
DictTags == {"None", "partial"}

\* the temp_name arguments: None, or the name of a template that is there
TempNames == {None, README_md \o dot_template}

\* the temp_dict arguments: None, or bindings that lack author_name
DictOf(tag) ==
    IF tag = "None" THEN NoDict ELSE (project_name_key :> <<"X">>)

YmlArgs == {None, Join(OtherFiles, environment_yml), <<environment_yml>>,
            Join(OtherFiles, README_md)}

Init ==
    /\ name = NotAStr /\ vresult = "none"
    /\ pc = "constructed" /\ typed = <<ProjName>> /\ authorReads = 1
    /\ path = CwdParent /\ proj_name = ProjName /\ author = <<"R","a","j">>
    /\ proj_dir = None
    /\ \E pre \in PreExisting :
          /\ dirs = BaseDirs \cup pre.dirs
          /\ files = pre.files @@ ShippedTemplates
    /\ call = NoCall /\ result = "none" /\ ret = None /\ projDirCalls = 0
    /\ recipe = "none" /\ idx = 0 /\ conda = FALSE /\ nops = 0

\* a method call c ended with outcome o
Apply(o, c) ==
    /\ proj_dir' = o.proj_dir
    /\ dirs' = o.dirs
    /\ files' = o.files
    /\ result' = o.result
    /\ ret' = o.ret
    /\ call' = c
    /\ nops' = nops + 1

Ready == pc = "constructed" /\ recipe = "none" /\ nops < MaxOps

CreateProjDir ==
    /\ Ready
    /\ Apply(create_proj_dir(Self, path, proj_name),
             Call("create_proj_dir", None, FALSE, "None", None, None))
    /\ projDirCalls' = IF projDirCalls < 2 THEN projDirCalls + 1 ELSE 2
    /\ UNCHANGED <<name, vresult, pc, typed, authorReads, path, proj_name,
                   author, recipe, idx, conda>>

CreateDir(d, p) ==
    /\ Ready
    /\ Apply(create_dir(Self, d, p),
             Call("create_dir", d, FALSE, "None", None, p))
    /\ UNCHANGED <<name, vresult, pc, typed, authorReads, path, proj_name,
                   author, projDirCalls, recipe, idx, conda>>

CreateFile(f, t, d, tn, p) ==
    /\ Ready
    /\ Apply(create_file(Self, proj_name, author, f, t, DictOf(d), tn, p),
             Call("create_file", f, t, d, tn, p))
    /\ UNCHANGED <<name, vresult, pc, typed, authorReads, path, proj_name,
                   author, projDirCalls, recipe, idx, conda>>

ValidPath(p, f) ==
    /\ Ready
    /\ Apply(valid_path(Self, p, f),
             Call("valid_path", f, FALSE, "None", None, p))
    /\ UNCHANGED <<name, vresult, pc, typed, authorReads, path, proj_name,
                   author, projDirCalls, recipe, idx, conda>>

CreateCondaEnv(y) ==
    /\ Ready
    /\ Apply(create_conda_env(Self, proj_name, author, y),
             Call("create_conda_env", None, FALSE, "None", None, y))
    /\ UNCHANGED <<name, vresult, pc, typed, authorReads, path, proj_name,
                   author, projDirCalls, recipe, idx, conda>>

CreatePipenv ==
    /\ Ready
    /\ Apply(create_pipenv(Self),
             Call("create_pipenv", None, FALSE, "None", None, None))
    /\ UNCHANGED <<name, vresult, pc, typed, authorReads, path, proj_name,
                   author, projDirCalls, recipe, idx, conda>>

\* the project directory is removed from outside the builder, as the test
\* fixtures do: rmtree(pb.proj_dir)
Rmtree ==
    /\ Ready
    /\ proj_dir # None /\ is_dir(Self, proj_dir)
    /\ Apply(Out(rmtree(Self, proj_dir), "ok", None),
             Call("rmtree", None, FALSE, "None", None, proj_dir))
    /\ UNCHANGED <<name, vresult, pc, typed, authorReads, path, proj_name,
                   author, projDirCalls, recipe, idx, conda>>

Next ==
    \/ CreateProjDir
    \/ \E d \in DirNames, p \in PathArgs : CreateDir(d, p)
    \/ \E f \in FileNames, t \in BOOLEAN, d \in DictTags, tn \in TempNames,
          p \in PathArgs :
          CreateFile(f, t, IF t THEN d ELSE "None",
                     IF t /\ d = "None" THEN tn ELSE None, p)
    \/ \E p \in PathArgs \cup {Join(ProjDirPath, README_md), RelativeData},
          f \in {None, README_md, data} : ValidPath(p, f)
    \/ \E y \in YmlArgs : CreateCondaEnv(y)
    \/ CreatePipenv
    \/ Rmtree

Spec == Init /\ [][Next]_vars

(***************************************************************************)
(* Properties of the builder's methods (checked under Spec)                *)
(***************************************************************************)
\* the step is a call of the method op
Calls(op) == nops' = nops + 1 /\ call'.op = op

\* the project directory is recorded and is on disk before the step
ProjDirOnDisk == proj_dir # None /\ exists(Self, proj_dir)

\* the file or directory a create_file / create_dir step is aimed at
TargetDir == IF call'.path = None THEN proj_dir ELSE call'.path
Target == Join(TargetDir, call'.name)
TargetExists == TargetDir # None /\ exists(Self, Target)

FsUnchanged == dirs' = dirs /\ files' = files

\* what was on disk before the step is still there, with the same text
FsKept ==
    /\ dirs \subseteq dirs'
    /\ \A f \in DOMAIN files : f \in DOMAIN files' /\ files'[f] = files[f]

\* C5: a second create_proj_dir, whatever create_* calls came in between,
\* raises nothing, returns path / proj_name again and leaves what is on disk
\* as it was.
C5_CreateProjDirIdempotent ==
    [][(Calls("create_proj_dir") /\ projDirCalls >= 1) =>
          /\ result' = "ok"
          /\ ret' = Join(path, proj_name)
          /\ ret' = proj_dir
          /\ proj_dir' = proj_dir
          /\ FsKept
          /\ exists(Self, proj_dir) => FsUnchanged]_vars

\* create_proj_dir has just succeeded a second time on a project directory
\* holding a file that create_file rendered in between
C5_Witness ==
    /\ call.op = "create_proj_dir" /\ result = "ok" /\ projDirCalls = 2
    /\ \E f \in DOMAIN files :
          /\ Parent(f) = proj_dir
          /\ files[f] \notin {<<>>, Foreign}

\* C6 as stated: whenever the target file already exists, create_file raises
\* FileExistsError and changes nothing.
C6_ExistingTargetRaisesAlreadyExists ==
    [][(Calls("create_file") /\ TargetExists) =>
          (result' = "FileExistsError" /\ FsUnchanged)]_vars

\* C6 as amended: with the project directory recorded and on disk, an
\* existing target makes create_file raise FileExistsError and change
\* nothing; without it the call raises FileNotFoundError and changes
\* nothing; and the second of two identical create_file calls in a row
\* always raises.
C6_ExistingTargetRaises ==
    [][/\ (Calls("create_file") /\ TargetExists /\ ProjDirOnDisk) =>
             (result' = "FileExistsError" /\ FsUnchanged)
       /\ (Calls("create_file") /\ TargetExists /\ ~ProjDirOnDisk) =>
             (result' = "FileNotFoundError" /\ FsUnchanged)
       /\ (Calls("create_file") /\ call' = call) => result' # "ok"]_vars

\* create_file was refused on a file that an earlier create_file rendered
C6_Witness ==
    /\ call.op = "create_file" /\ result = "FileExistsError"
    /\ proj_dir # None
    /\ LET t == Join(IF call.path = None THEN proj_dir ELSE call.path, call.name)
       IN t \in DOMAIN files /\ files[t] \notin {<<>>, Foreign}

\* C7: create_file, valid_path, create_conda_env and create_pipenv, called
\* while the project directory is not recorded or not on disk, raise
\* FileNotFoundError and create nothing.
C7_StageOrdering ==
    [][((\E op \in {"create_file", "valid_path", "create_conda_env",
                    "create_pipenv"} : Calls(op))
        /\ ~ProjDirOnDisk) =>
          (result' = "FileNotFoundError" /\ FsUnchanged)]_vars

\* C8: with the project directory on disk, create_dir of a directory that is
\* already there raises nothing and returns its path.
C8_CreateDirIfAbsent ==
    [][(Calls("create_dir") /\ ProjDirOnDisk /\ is_dir(Self, Target)) =>
          (result' = "ok" /\ ret' = Target)]_vars

(***************************************************************************)
(* SpecSimple and SpecMl: create_simple_project and create_ml_project,     *)
(* from the construction of the builder to the return, one method call     *)
(* per step                                                                *)
(***************************************************************************)
\* files = [...] in create_simple_project
SimpleFiles == <<README_md, TODO_md, LICENSE, setup_py, gitignore>>

\* files = [...] in create_ml_project
MlFiles == <<README_md, TODO_md, LICENSE, gitignore>>

MlDirs_without_notebooks == <<data, tests>>

\* dirs = [...] in create_ml_project
MlDirs == <<data, tests, notebooks>>

RecipeFiles == IF recipe = "simple" THEN SimpleFiles ELSE MlFiles

\* f'{pb.proj_name.replace("-","_").lower()}.py'
main_filename(pname) == lower(replace_dash(pname)) \o dot_py

\* 'test_' + filename, f'test_{name}.py'
test_filename(pname) == test_prefix \o lower(replace_dash(pname)) \o dot_py

\* f'{ml_pb.proj_name.lower()}.ipynb'
notebook_filename(pname) == lower(pname) \o dot_ipynb

\* the templates the two recipes read
RecipeTemplateNames ==
    {README_md \o dot_template, TODO_md \o dot_template,
     LICENSE \o dot_template, setup_py \o dot_template,
     gitignore \o dot_template, main_py_template, test_project_py_template,
     jupyter_ipynb_template, environment_yml \o dot_template}

TemplateText(n) ==
    IF n = environment_yml \o dot_template THEN environment_template
    ELSE README_template

\* what lies in the base directories before the recipe runs: nothing, a
\* directory 'setup' holding a README.md, or a regular file 'A-b'
RecipePreExisting ==
    { [dirs |-> {}, files |-> <<>>],
      [dirs |-> {Join(CwdParent, <<"s","e","t","u","p">>)},
       files |-> (Join(Join(CwdParent, <<"s","e","t","u","p">>), README_md)
                    :> Foreign)],
      [dirs |-> {}, files |-> (Join(CwdParent, <<"A","-","b">>) :> Foreign)] }

InitRecipe(r) ==
    /\ name = NotAStr /\ vresult = "none"
    /\ pc = "new" /\ typed = <<>> /\ authorReads = 0
    /\ path = None /\ proj_name = <<>> /\ author = <<>> /\ proj_dir = None
    /\ \E pre \in RecipePreExisting,
          present \in {RecipeTemplateNames}
                         \cup {RecipeTemplateNames \ {n} : n \in RecipeTemplateNames} :
          /\ dirs = BaseDirs \cup pre.dirs
          /\ files = pre.files @@ (SomeFile :> <<>>)
                       @@ [q \in {TemplatePath(n) : n \in present}
                             |-> TemplateText(PathName(q))]
    /\ call = NoCall /\ result = "none" /\ ret = None /\ projDirCalls = 0
    /\ recipe = r /\ idx = 0 /\ nops = 0
    /\ conda \in (IF r = "ml" THEN BOOLEAN ELSE {FALSE})

\* the recipe made call c with outcome o; on success it goes on at
\* position nextpc with loop index nextidx, an exception ends it
RecipeStep(o, c, nextpc, nextidx) ==
    /\ proj_dir' = o.proj_dir
    /\ dirs' = o.dirs
    /\ files' = o.files
    /\ result' = o.result
    /\ ret' = o.ret
    /\ call' = c
    /\ pc' = IF o.result = "ok" THEN nextpc ELSE "raised"
    /\ idx' = IF o.result = "ok" THEN nextidx ELSE idx
    /\ UNCHANGED <<name, vresult, typed, authorReads, path, proj_name, author,
                   projDirCalls, recipe, conda, nops>>

\* pb.create_proj_dir()
RecipeProjDir ==
    /\ pc = "constructed" /\ recipe # "none"
    /\ RecipeStep(create_proj_dir(Self, path, proj_name),
                  Call("create_proj_dir", None, FALSE, "None", None, None),
                  "files", 1)

\* for filename in files: pb.create_file(filename=filename, template=True)
RecipeFile ==
    /\ pc = "files"
    /\ LET f == RecipeFiles[idx] IN
       RecipeStep(create_file(Self, proj_name, author, f, TRUE, NoDict, None, None),
                  Call("create_file", f, TRUE, "None", None, None),
                  IF idx < Len(RecipeFiles) THEN "files"
                  ELSE IF recipe = "simple" THEN "main" ELSE "dirs",
                  IF idx < Len(RecipeFiles) THEN idx + 1 ELSE 1)

\* the main python file of create_simple_project
RecipeMain ==
    /\ pc = "main"
    /\ LET f == main_filename(proj_name) IN
       RecipeStep(create_file(Self, proj_name, author, f, TRUE, NoDict,
                              main_py_template, None),
                  Call("create_file", f, TRUE, "None", main_py_template, None),
                  "test", idx)

\* for dir_name in dirs: ml_pb.create_dir(dir_name=dir_name)
RecipeDir ==
    /\ pc = "dirs"
    /\ LET d == MlDirs[idx] IN
       RecipeStep(create_dir(Self, d, None),
                  Call("create_dir", d, FALSE, "None", None, None),
                  IF idx < Len(MlDirs) THEN "dirs" ELSE "notebook",
                  IF idx < Len(MlDirs) THEN idx + 1 ELSE 1)

\* the jupyter notebook of create_ml_project, in proj_dir / 'notebooks'
RecipeNotebook ==
    /\ pc = "notebook"
    /\ LET f == notebook_filename(proj_name)
           p == Join(proj_dir, notebooks)
       IN RecipeStep(create_file(Self, proj_name, author, f, TRUE, NoDict,
                                 jupyter_ipynb_template, p),
                     Call("create_file", f, TRUE, "None", jupyter_ipynb_template, p),
                     "test", idx)

\* the test python file: in the project directory for the simple project,
\* in proj_dir / 'tests' for the ml project
RecipeTest ==
    /\ pc = "test"
    /\ LET f == test_filename(proj_name)
           p == IF recipe = "simple" THEN None ELSE Join(proj_dir, tests)
       IN RecipeStep(create_file(Self, proj_name, author, f, TRUE, NoDict,
                                 test_project_py_template, p),
                     Call("create_file", f, TRUE, "None",
                          test_project_py_template, p),
                     IF recipe = "simple" THEN "pipenv"
                     ELSE IF conda THEN "conda" ELSE "done",
                     idx)

\* pb.create_pipenv()
RecipePipenv ==
    /\ pc = "pipenv"
    /\ RecipeStep(create_pipenv(Self),
                  Call("create_pipenv", None, FALSE, "None", None, None),
                  "done", idx)

\* if create_conda_env: ml_pb.create_conda_env()
RecipeConda ==
    /\ pc = "conda"
    /\ RecipeStep(create_conda_env(Self, proj_name, author, None),
                  Call("create_conda_env", None, FALSE, "None", None, None),
                  "done", idx)

NextSimple ==
    \/ \E p \in ConstructorPaths : Construct(p)
    \/ \E line \in Lines : ReadName(line)
    \/ \E line \in AuthorLines : ReadAuthor(line)
    \/ RecipeProjDir
    \/ RecipeFile
    \/ RecipeMain
    \/ RecipeTest
    \/ RecipePipenv

SpecSimple == InitRecipe("simple") /\ [][NextSimple]_vars

NextMl ==
    \/ \E p \in ConstructorPaths : Construct(p)
    \/ \E line \in Lines : ReadName(line)
    \/ \E line \in AuthorLines : ReadAuthor(line)
    \/ RecipeProjDir
    \/ RecipeFile
    \/ RecipeDir
    \/ RecipeNotebook
    \/ RecipeTest
    \/ RecipeConda

SpecMl == InitRecipe("ml") /\ [][NextMl]_vars

(***************************************************************************)
(* Properties of the recipes (checked under SpecSimple and SpecMl)         *)
(***************************************************************************)
ProjPath == Join(path, proj_name)

\* the entries directly inside directory p
Children(p) == {q \in dirs \cup DOMAIN files : Parent(q) = p}
FileChildren(p) == {PathName(q) : q \in Children(p) \cap DOMAIN files}
DirChildren(p) == {PathName(q) : q \in Children(p) \cap dirs}

AllTemplatesPresent ==
    \A n \in RecipeTemplateNames : TemplatePath(n) \in DOMAIN files

\* nothing that predates the run lies at or below path / proj_name (what
\* predates the run is told by its text, which no recipe writes)
NoEntryBeforeRun ==
    Under(ProjPath, {f \in DOMAIN files : files[f] = Foreign}) = {}

\* the builder was constructed and the recipe has returned or raised
RecipeEnded == authorReads = 1 /\ pc \in {"done", "raised"}

SimpleProjectFiles ==
    {README_md, TODO_md, LICENSE, setup_py, gitignore,
     main_filename(proj_name), test_filename(proj_name)}

\* C9: for a valid name, all templates present and no entry of that name in
\* the base path, create_simple_project ends without error and the project
\* directory holds exactly the seven distinct files and the directory venv.
C9_SimpleProjectLayout ==
    (recipe = "simple" /\ RecipeEnded /\ ~ViolatesARule(proj_name)
        /\ AllTemplatesPresent /\ NoEntryBeforeRun)
    => /\ pc = "done"
       /\ Cardinality(SimpleProjectFiles) = 7
       /\ FileChildren(ProjPath) = SimpleProjectFiles
       /\ DirChildren(ProjPath) = {venv}

\* C10: for a valid name, all templates present and no entry of that name in
\* the base path, create_ml_project raises nothing and ends with data/,
\* tests/ and notebooks/, the four root files, the notebook inside
\* notebooks/ and the test file inside tests/, each of the two directories
\* being there before its file is created.
C10_MlProjectLayout ==
    (recipe = "ml" /\ authorReads = 1 /\ AllTemplatesPresent /\ NoEntryBeforeRun)
    => /\ pc # "raised"
       /\ pc = "notebook" =>
             /\ Join(ProjPath, notebooks) \in dirs
             /\ FileChildren(Join(ProjPath, notebooks)) = {}
       /\ pc = "test" =>
             /\ Join(ProjPath, tests) \in dirs
             /\ FileChildren(Join(ProjPath, tests)) = {}
       /\ pc = "done" =>
             /\ proj_dir = ProjPath
             /\ {data, tests, notebooks} \subseteq DirChildren(ProjPath)
             /\ {README_md, TODO_md, LICENSE, gitignore}
                    \subseteq FileChildren(ProjPath)
             /\ FileChildren(Join(ProjPath, notebooks))
                    = {notebook_filename(proj_name)}
             /\ FileChildren(Join(ProjPath, tests))
                    = {test_filename(proj_name)}

\* create_ml_project returned for the project 'A-b': the notebook a-b.ipynb
\* lies in notebooks/ and test_a_b.py in tests/
C10_Witness ==
    /\ recipe = "ml" /\ pc = "done" /\ authorReads = 1
    /\ AllTemplatesPresent /\ NoEntryBeforeRun
    /\ proj_name = <<"A","-","b">>
    /\ Join(Join(ProjPath, notebooks), <<"a","-","b">> \o dot_ipynb) \in DOMAIN files
    /\ Join(Join(ProjPath, tests), test_prefix \o <<"a","_","b">> \o dot_py)
          \in DOMAIN files

(***************************************************************************)
(* Properties of template rendering and of the path gate (checked under    *)
(* Spec)                                                                   *)
(***************************************************************************)
\* the template a create_file call c reads and the bindings it renders with
TemplateOf(c) ==
    TemplatePath(IF c.temp_name = None THEN c.name \o dot_template
                 ELSE c.temp_name)
BindingsOf(c) ==
    IF c.dict = "None" THEN default_dict(proj_name, author) ELSE DictOf(c.dict)

\* the placeholder keys of a text that the bindings d do not bind
UnboundKeys(text, d) ==
    {text[i].text : i \in {j \in DOMAIN text : text[j].var}} \ DOMAIN d

\* the step is a create_file call that gets as far as rendering a template:
\* the path gate lets it through and the template is there
Renders ==
    /\ Calls("create_file") /\ call'.template
    /\ ProjDirOnDisk
    /\ is_dir(Self, TargetDir) /\ ~exists(Self, Target)
    /\ TemplateOf(call') \in DOMAIN files

\* the text holds a placeholder that was replaced by nothing
HasBlank(text) == \E i \in DOMAIN text : text[i] = Lit(<<>>)

\* C11: a create_file that renders a template referring to a key the
\* bindings lack fails with a rendering error and never writes text in which
\* that placeholder was replaced by blank text.
C11_UnknownPlaceholderIsError ==
    [][(Renders /\ UnboundKeys(files[TemplateOf(call')], BindingsOf(call')) # {})
          => /\ result' = "UndefinedError"
             /\ ~(Resolve(Target) \in DOMAIN files'
                    /\ HasBlank(files'[Resolve(Target)]))]_vars

\* q lies in the project directory recorded after the step
InsideProjDir(q) ==
    /\ proj_dir' # None
    /\ Under(Resolve(proj_dir'), {Resolve(q)}) # {}

\* what the step added to the disk
Created == (dirs' \ dirs) \cup (DOMAIN files' \ DOMAIN files)

\* C12: every path valid_path returns, and so every file create_file makes
\* and every directory create_dir makes, the files written by
\* create_conda_env included, lies inside the project directory.
C12_PathContainment ==
    [][(\E op \in {"valid_path", "create_file", "create_dir",
                   "create_conda_env"} : Calls(op))
          => /\ (result' = "ok" /\ ret' # None) => InsideProjDir(ret')
             /\ \A q \in Created : InsideProjDir(q)]_vars

\* C13: after a create_proj_dir that returned, whatever was at
\* path / proj_name before, proj_dir is path / proj_name and is a directory
\* on disk, so that a create_file with the default sub-path and a filename
\* not yet there succeeds.
C13_ProjDirUsableAfterCreate ==
    (call.op = "create_proj_dir" /\ result = "ok")
    => /\ proj_dir = Join(path, proj_name)
       /\ is_dir(Self, proj_dir)
       /\ \A f \in FileNames :
             ~exists(Self, Join(proj_dir, f)) =>
                create_file(Self, proj_name, author, f, FALSE, NoDict, None,
                            None).result = "ok"

\* C14: a create_file with template=True whose template is missing raises
\* FileNotFoundError after the empty target was created; the empty file
\* stays, nothing else changes, and a following create_file of the same
\* filename raises FileExistsError, also when given a template that is
\* there.
C14_NoRollbackOnMissingTemplate ==
    [][(/\ Calls("create_file") /\ call'.template
        /\ ProjDirOnDisk
        /\ is_dir(Self, TargetDir) /\ ~exists(Self, Target)
        /\ ~exists(Self, TemplateOf(call')))
          => /\ result' = "FileNotFoundError"
             /\ dirs' = dirs
             /\ DOMAIN files' = DOMAIN files \cup {Resolve(Target)}
             /\ files'[Resolve(Target)] = <<>>
             /\ \A f \in DOMAIN files : files'[f] = files[f]
             /\ \A tn \in TempNames :
                   create_file(Self', proj_name, author, call'.name, TRUE,
                               BindingsOf(call'), tn, call'.path).result
                      = "FileExistsError"]_vars

\* create_file has just raised for want of the template setup.py.template
\* and its empty target is on disk
C14_Witness ==
    /\ call.op = "create_file" /\ call.template /\ call.name = setup_py
    /\ call.temp_name = None
    /\ result = "FileNotFoundError"
    /\ proj_dir # None
    /\ LET t == Resolve(Join(IF call.path = None THEN proj_dir ELSE call.path,
                             call.name))
       IN t \in DOMAIN files /\ files[t] = <<>>

====
